---------------------------- MODULE Spec2Model ----------------------------
(***************************************************************************)
(* Verification model of the PDF lecture-explainer pipeline:               *)
(*   utils.parse_page_range, LLMHandler context window, the retry loop of  *)
(*   analyze_image and the orchestration in main().                        *)
(*                                                                         *)
(* Text is modelled as a sequence of one-character strings, so that        *)
(* splitting, stripping and integer conversion are computed as the code    *)
(* computes them.                                                          *)
(***************************************************************************)
EXTENDS Integers, Sequences, FiniteSets, TLC

\* ------------------------------------------------------------------ bounds
\* longest page-range expression drawn as input of parse_page_range
MaxLen == 5
\* largest total_pages drawn as input of parse_page_range
MaxPages == 2
\* largest max_context_pages given to add_to_context
MaxK == 3
\* add_to_context calls in one behaviour
MaxPushes == 5
\* analyze_image calls on one handler in one behaviour
MaxCalls == 2
\* save calls on the result cache in one behaviour
MaxSaves == 3
\* largest max_retries a handler is built with
MaxRetriesBound == 3
\* runs of main() in one behaviour, all on the same output directory
MaxRuns == 2
\* page counts of the two source files (the larger one needs the confirmation)
SmallDocPages == 2
LargeDocPages == 6
\* the backend may fail on pages up to this one and answers on the later ones
MaxFaultyPage == 1

\* ------------------------------------------------------------- vocabulary
Digits == {"0", "1", "2", "3", "4", "5", "6", "7", "8", "9"}
\* the characters page-range expressions are drawn from
Alphabet == {"0", "1", "2", "-", ",", " "}

\* all texts over Alphabet of length 0..n
RECURSIVE StringsUpTo(_)
StringsUpTo(n) ==
    IF n = 0 THEN {<< >>}
    ELSE LET shorter == StringsUpTo(n - 1)
         IN  shorter \cup {Append(s, c) : s \in {t \in shorter : Len(t) = n - 1}, c \in Alphabet}

VARIABLES
    page_range_str,     \* parse_page_range: the argument page_range_str
    total_pages,        \* parse_page_range: the argument total_pages
    parse_out,          \* parse_page_range: "none" before the call, then its outcome
    previous_summaries, \* LLMHandler.previous_summaries
    max_context_pages,  \* the max_context_pages the caller passes to add_to_context
    ctx_before,         \* history: previous_summaries before the latest add_to_context
    ctx_arg,            \* history: the summary given to the latest add_to_context
    ctx_calls,          \* history: number of add_to_context calls so far
    max_retries,        \* LLMHandler.max_retries
    page_num,           \* analyze_image: the argument page_num
    attempt,            \* analyze_image: the loop variable attempt
    backend_log,        \* history: the backend's outcome at each attempt so far
    waits,              \* history: the argument of each time.sleep of the retry loop
    ret,                \* analyze_image: "running", then the returned text
    run,                \* main(): its position, arguments and local variables
    run_no,             \* history: number of the current run of main()
    enable_cache,       \* Config.ENABLE_CACHE
    cache_store,        \* the cache records on disk, by source fingerprint
    save_log,           \* history: the arguments of every save so far, oldest first
    loaded,             \* history: the latest load, its fingerprint and its result
    provider,           \* LLMHandler.provider
    timeout,            \* LLMHandler.timeout
    entry,              \* history: the handler's attributes when the current call began
    earlier             \* history: how the earlier analyze_image calls on the handler ended

parseVars == <<page_range_str, total_pages, parse_out>>
ctxVars == <<previous_summaries, max_context_pages, ctx_before, ctx_arg, ctx_calls>>
retryVars == <<max_retries, page_num, attempt, backend_log, waits, ret>>
runVars == <<run, run_no, enable_cache, cache_store>>
cacheVars == <<save_log, loaded>>
handlerVars == <<provider, timeout, entry, earlier>>
vars == <<parseVars, ctxVars, retryVars, runVars, cacheVars, handlerVars>>

\* the values the variables of a component hold while another one is exercised
ParseIdle ==
    /\ page_range_str = << >>
    /\ total_pages = 0
    /\ parse_out = [status |-> "none", pages |-> << >>]

ContextIdle ==
    /\ previous_summaries = << >>
    /\ max_context_pages = 3
    /\ ctx_before = << >>
    /\ ctx_arg = ""
    /\ ctx_calls = 0

RetryIdle ==
    /\ max_retries = 3
    /\ page_num = 1
    /\ attempt = 0
    /\ backend_log = << >>
    /\ waits = << >>
    /\ ret = [done |-> FALSE, text |-> ""]

RunIdle ==
    /\ run = [pc |-> "unused"]
    /\ run_no = 0
    /\ enable_cache = TRUE
    /\ cache_store = << >>

CacheIdle ==
    /\ save_log = << >>
    /\ loaded = [called |-> FALSE]

\* the attributes analyze_image could reach through self
Attributes(retries, seconds, window) ==
    [max_retries |-> retries, timeout |-> seconds, previous_summaries |-> window]

HandlerIdle ==
    /\ provider = "openai"
    /\ timeout = 60
    /\ entry = Attributes(3, 60, << >>)
    /\ earlier = << >>

\* ------------------------------------------------- utils.parse_page_range
\* str.split(sep): the pieces between separators, empty pieces kept
RECURSIVE SplitFrom(_, _, _, _)
SplitFrom(s, sep, i, cur) ==
    IF i > Len(s) THEN <<cur>>
    ELSE IF s[i] = sep THEN <<cur>> \o SplitFrom(s, sep, i + 1, << >>)
    ELSE SplitFrom(s, sep, i + 1, Append(cur, s[i]))

Split(s, sep) == SplitFrom(s, sep, 1, << >>)

\* str.strip(): leading and trailing blanks removed
RECURSIVE LStrip(_)
LStrip(s) == IF Len(s) > 0 /\ s[1] = " " THEN LStrip(Tail(s)) ELSE s

RECURSIVE RStrip(_)
RStrip(s) ==
    IF Len(s) > 0 /\ s[Len(s)] = " " THEN RStrip(SubSeq(s, 1, Len(s) - 1)) ELSE s

Strip(s) == RStrip(LStrip(s))

\* '-' in part
Contains(s, c) == \E i \in 1..Len(s) : s[i] = c

DigitValue(c) ==
    CASE c = "0" -> 0 [] c = "1" -> 1 [] c = "2" -> 2 [] c = "3" -> 3 [] c = "4" -> 4
      [] c = "5" -> 5 [] c = "6" -> 6 [] c = "7" -> 7 [] c = "8" -> 8 [] c = "9" -> 9

\* int(text) succeeds: optional surrounding blanks, then one or more digits
IntParses(s) ==
    LET t == Strip(s) IN Len(t) > 0 /\ \A i \in 1..Len(t) : t[i] \in Digits

RECURSIVE DecimalValue(_)
DecimalValue(t) ==
    IF Len(t) = 0 THEN 0
    ELSE 10 * DecimalValue(SubSeq(t, 1, Len(t) - 1)) + DigitValue(t[Len(t)])

\* int(text), for a text that IntParses
IntValue(s) == DecimalValue(Strip(s))

Failure == [ok |-> FALSE, pages |-> {}]

\* mutant of ParseRangePart: range(start, end) in place of range(start, end + 1)
ParseRangePartExclusiveEnd(part, total) ==
    LET pieces == Split(part, "-") IN
    IF Len(pieces) # 2 THEN Failure
    ELSE IF ~IntParses(pieces[1]) \/ ~IntParses(pieces[2]) THEN Failure
    ELSE LET start == IntValue(pieces[1])
             end == IntValue(pieces[2])
         IN  IF start < 1 \/ end > total THEN Failure
             ELSE [ok |-> TRUE, pages |-> start..(end - 1)]

\* the range branch of the loop body: [ok, pages], ok = FALSE for a ValueError
ParseRangePart(part, total) ==
    LET pieces == Split(part, "-") IN
    IF Len(pieces) # 2 THEN Failure
    ELSE IF ~IntParses(pieces[1]) \/ ~IntParses(pieces[2]) THEN Failure
    ELSE LET start == IntValue(pieces[1])
             end == IntValue(pieces[2])
         IN  IF start < 1 \/ end > total THEN Failure
             ELSE [ok |-> TRUE, pages |-> start..end]

\* mutant of ParseSinglePart: the test `page > total_pages` left out
ParseSinglePartNoUpperCheck(part, total) ==
    IF ~IntParses(part) THEN Failure
    ELSE LET page == IntValue(part)
         IN  IF page < 1 THEN Failure
             ELSE [ok |-> TRUE, pages |-> {page}]

\* the single-page branch of the loop body
ParseSinglePart(part, total) ==
    IF ~IntParses(part) THEN Failure
    ELSE LET page == IntValue(part)
         IN  IF page < 1 \/ page > total THEN Failure
             ELSE [ok |-> TRUE, pages |-> {page}]

\* one iteration of `for part in parts` on the stripped part
ParsePart(raw, total) ==
    LET part == Strip(raw) IN
    IF Contains(part, "-") THEN ParseRangePart(part, total)
    ELSE ParseSinglePart(part, total)

\* the whole loop: the first ValueError ends it, otherwise the set grows
RECURSIVE ParseParts(_, _, _, _)
ParseParts(parts, i, total, pages) ==
    IF i > Len(parts) THEN [ok |-> TRUE, pages |-> pages]
    ELSE LET r == ParsePart(parts[i], total)
         IN  IF ~r.ok THEN Failure
             ELSE ParseParts(parts, i + 1, total, pages \cup r.pages)

Min(S) == CHOOSE x \in S : \A y \in S : x <= y

\* sorted(list(pages))
RECURSIVE Sorted(_)
Sorted(S) == IF S = {} THEN << >> ELSE <<Min(S)>> \o Sorted(S \ {Min(S)})

\* mutant of RangeList: the pages listed from the last one down
RangeListDescending(n) == [i \in 1..n |-> n + 1 - i]

\* list(range(1, total_pages + 1))
RangeList(n) == [i \in 1..n |-> i]

\* parse_page_range(page_range_str, total_pages):
\*   [status |-> "ok", pages |-> list] or [status |-> "error", pages |-> << >>]
parse_page_range(str, total) ==
    IF Len(str) = 0 THEN [status |-> "ok", pages |-> RangeList(total)]
    ELSE LET r == ParseParts(Split(str, ","), 1, total, {})
         IN  IF r.ok THEN [status |-> "ok", pages |-> Sorted(r.pages)]
             ELSE [status |-> "error", pages |-> << >>]

NotCalled == [status |-> "none", pages |-> << >>]

ParseInit ==
    /\ page_range_str \in StringsUpTo(MaxLen)
    /\ total_pages \in 0..MaxPages
    /\ parse_out = NotCalled
    /\ ContextIdle
    /\ RetryIdle
    /\ RunIdle
    /\ CacheIdle
    /\ HandlerIdle

CallParse ==
    /\ parse_out.status = "none"
    /\ parse_out' = parse_page_range(page_range_str, total_pages)
    /\ UNCHANGED <<page_range_str, total_pages, ctxVars, retryVars, runVars, cacheVars, handlerVars>>

SpecParse == ParseInit /\ [][CallParse]_vars

\* ------------------------------------------- claims on parse_page_range
Called == parse_out.status # "none"

Elements(seq) == {seq[i] : i \in 1..Len(seq)}

StrictlyAscending(seq) == \A i \in 1..(Len(seq) - 1) : seq[i] < seq[i + 1]

\* C5: whenever parse_page_range returns a list, the list is strictly
\* ascending (hence free of duplicates) and every element lies in
\* [1, total_pages].
C5_OutputAscendingInBounds ==
    parse_out.status = "ok" =>
        /\ StrictlyAscending(parse_out.pages)
        /\ \A i \in 1..Len(parse_out.pages) :
               parse_out.pages[i] >= 1 /\ parse_out.pages[i] <= total_pages
        /\ Cardinality(Elements(parse_out.pages)) = Len(parse_out.pages)

\* "2,1,1" with 2 pages: tokens out of order and repeated, all in bounds
C5_Witness ==
    /\ page_range_str = <<"2", ",", "1", ",", "1">>
    /\ total_pages = 2
    /\ parse_out = [status |-> "ok", pages |-> <<1, 2>>]

\* the expression holds a token start-end whose start exceeds its end
HasReversedRange(str) ==
    \E i \in 1..Len(Split(str, ",")) :
        LET pieces == Split(Strip(Split(str, ",")[i]), "-") IN
        /\ Len(pieces) = 2
        /\ IntParses(pieces[1]) /\ IntParses(pieces[2])
        /\ IntValue(pieces[1]) > IntValue(pieces[2])

\* C6: parse_page_range fails whenever the expression contains a range
\* token start-end with start > end.
C6_ReversedRangeFails ==
    (Called /\ HasReversedRange(page_range_str)) => parse_out.status = "error"

\* The grammar of section 6 of the specification, stated on its own terms:
\* a numeral is the decimal writing of n, leading zeros and surrounding
\* blanks allowed.
DigitChar(d) ==
    CASE d = 0 -> "0" [] d = 1 -> "1" [] d = 2 -> "2" [] d = 3 -> "3" [] d = 4 -> "4"
      [] d = 5 -> "5" [] d = 6 -> "6" [] d = 7 -> "7" [] d = 8 -> "8" [] d = 9 -> "9"

RECURSIVE Decimal(_)
Decimal(n) == IF n < 10 THEN <<DigitChar(n)>> ELSE Append(Decimal(n \div 10), DigitChar(n % 10))

Repeat(c, k) == [i \in 1..k |-> c]

IsNumeral(t, n) ==
    \E l, z \in 0..Len(t) :
        LET r == Len(t) - l - z - Len(Decimal(n)) IN
        /\ r >= 0
        /\ t = Repeat(" ", l) \o Repeat("0", z) \o Decimal(n) \o Repeat(" ", r)

IsRangeToken(t, a, b) ==
    \E k \in 1..Len(t) :
        /\ t[k] = "-"
        /\ IsNumeral(SubSeq(t, 1, k - 1), a)
        /\ IsNumeral(SubSeq(t, k + 1, Len(t)), b)

\* the tokens of an expression: the texts between neighbouring commas
CommaPositions(str) == {0, Len(str) + 1} \cup {i \in 1..Len(str) : str[i] = ","}

Tokens(str) ==
    {SubSeq(str, a + 1, b - 1) :
        <<a, b>> \in {p \in CommaPositions(str) \X CommaPositions(str) :
                        /\ p[1] < p[2]
                        /\ ~\E c \in CommaPositions(str) : p[1] < c /\ c < p[2]}}

\* a page number, or a range whose two bounds both lie in [1, total]
TokenInBounds(t, total) ==
    \/ \E n \in 1..total : IsNumeral(t, n)
    \/ \E a, b \in 1..total : IsRangeToken(t, a, b)

\* C7: parse_page_range fails whenever a page number or either bound of a
\* range lies outside [1, total_pages], or a token is neither an integer
\* nor a start-end range.
C7_OutOfBoundsOrMalformedFails ==
    (/\ Called
     /\ Len(page_range_str) > 0
     /\ \E t \in Tokens(page_range_str) : ~TokenInBounds(t, total_pages))
        => parse_out.status = "error"

\* the pages a token denotes
TokenPages(t, total) ==
    {n \in 1..total :
        \/ IsNumeral(t, n)
        \/ \E a, b \in 1..total : a <= b /\ IsRangeToken(t, a, b) /\ a <= n /\ n <= b}

TokenWellFormed(t, total) ==
    \/ \E n \in 1..total : IsNumeral(t, n)
    \/ \E a, b \in 1..total : a <= b /\ IsRangeToken(t, a, b)

WellFormedInBounds(str, total) ==
    Len(str) > 0 /\ \A t \in Tokens(str) : TokenWellFormed(t, total)

\* C8: for a well-formed, in-bounds expression the result is the sorted
\* union of the pages its tokens denote; the empty expression gives
\* 1..total_pages.
C8_ResultIsSortedUnion ==
    Called =>
        /\ WellFormedInBounds(page_range_str, total_pages) =>
              /\ parse_out.status = "ok"
              /\ StrictlyAscending(parse_out.pages)
              /\ Elements(parse_out.pages) =
                    UNION {TokenPages(t, total_pages) : t \in Tokens(page_range_str)}
        /\ Len(page_range_str) = 0 =>
              /\ parse_out.status = "ok"
              /\ Len(parse_out.pages) = total_pages
              /\ \A i \in 1..total_pages : parse_out.pages[i] = i

\* "1-2,2" with 2 pages: a range and a page inside it are merged
C8_Witness ==
    /\ page_range_str = <<"1", "-", "2", ",", "2">>
    /\ total_pages = 2
    /\ WellFormedInBounds(page_range_str, total_pages)
    /\ parse_out = [status |-> "ok", pages |-> <<1, 2>>]

\* ------------------------------------------- LLMHandler: context window
\* summaries offered to add_to_context
Summaries == {"[p1] alpha", "[p2] beta", "[p3] gamma"}

\* mutant of add_to_context: pop() in place of pop(0)
add_to_context_pop_newest(window, summary, k) ==
    LET appended == Append(window, summary)
    IN  IF Len(appended) > k THEN SubSeq(appended, 1, Len(appended) - 1) ELSE appended

\* mutant of add_to_context: entries are removed until at most k are left
add_to_context_trim_to_k(window, summary, k) ==
    LET appended == Append(window, summary)
        keep == IF k < 0 THEN 0 ELSE k
    IN  IF Len(appended) > keep
        THEN SubSeq(appended, Len(appended) - keep + 1, Len(appended))
        ELSE appended

\* add_to_context(summary, max_context_pages): the new previous_summaries
add_to_context(window, summary, k) ==
    LET appended == Append(window, summary)
    IN  IF Len(appended) > k THEN Tail(appended) ELSE appended

\* "\n".join(lines)
RECURSIVE JoinLines(_)
JoinLines(lines) ==
    IF Len(lines) = 0 THEN ""
    ELSE IF Len(lines) = 1 THEN lines[1]
    ELSE lines[1] \o "\n" \o JoinLines(Tail(lines))

\* mutant of get_context_string: only the newest summary is rendered
get_context_string_newest_only(window) ==
    IF Len(window) = 0 THEN ""
    ELSE "\n\nSummary of the previous pages:\n" \o window[Len(window)] \o "\n"

\* get_context_string()
get_context_string(window) ==
    IF Len(window) = 0 THEN ""
    ELSE "\n\nSummary of the previous pages:\n" \o JoinLines(window) \o "\n"

ContextInit ==
    /\ ParseIdle
    /\ RetryIdle
    /\ RunIdle
    /\ CacheIdle
    /\ HandlerIdle
    /\ previous_summaries = << >>
    /\ max_context_pages \in 0..MaxK
    /\ ctx_before = << >>
    /\ ctx_arg = ""
    /\ ctx_calls = 0

AddToContext ==
    /\ ctx_calls < MaxPushes
    /\ \E summary \in Summaries :
          /\ previous_summaries' =
                add_to_context(previous_summaries, summary, max_context_pages)
          /\ ctx_arg' = summary
    /\ ctx_before' = previous_summaries
    /\ ctx_calls' = ctx_calls + 1
    /\ UNCHANGED <<max_context_pages, parseVars, retryVars, runVars, cacheVars, handlerVars>>

SpecContext == ContextInit /\ [][AddToContext]_vars

\* the values a caller passes as max_context_pages
LimitsPassed == (0 - 1)..MaxK

\* add_to_context(summary, max_context_pages) with the limit chosen by the
\* caller at each call
AddToContextWithLimit ==
    /\ ctx_calls < MaxPushes
    /\ \E summary \in Summaries, k \in LimitsPassed :
          /\ previous_summaries' = add_to_context(previous_summaries, summary, k)
          /\ max_context_pages' = k
          /\ ctx_arg' = summary
    /\ ctx_before' = previous_summaries
    /\ ctx_calls' = ctx_calls + 1
    /\ UNCHANGED <<parseVars, retryVars, runVars, cacheVars, handlerVars>>

SpecContextLimits == ContextInit /\ [][AddToContextWithLimit]_vars

C4_PushOnFullEvictsOldest ==
    /\ Len(previous_summaries) <= max_context_pages
    /\ (ctx_calls > 0 /\ Len(ctx_before) = max_context_pages) =>
          previous_summaries = SubSeq(ctx_before, 2, Len(ctx_before)) \o <<ctx_arg>>

\* C4 (amended): the window never holds more than K summaries; for K >= 1 a
\* push onto a window holding exactly K summaries removes the oldest one,
\* keeps the others in order and leaves the new summary last; for K = 0 the
\* pushed summary is itself removed at once and the window stays empty.
C4_BoundedFifoWindow ==
    /\ Len(previous_summaries) <= max_context_pages
    /\ (ctx_calls > 0 /\ Len(ctx_before) = max_context_pages /\ max_context_pages >= 1) =>
          previous_summaries = SubSeq(ctx_before, 2, Len(ctx_before)) \o <<ctx_arg>>
    /\ (ctx_calls > 0 /\ max_context_pages = 0) => previous_summaries = << >>

\* a third summary pushed onto a full window of two
C4_Witness ==
    /\ max_context_pages = 2
    /\ ctx_before = <<"[p1] alpha", "[p2] beta">>
    /\ ctx_arg = "[p3] gamma"
    /\ previous_summaries = <<"[p2] beta", "[p3] gamma">>

\* ------------------------------------- analyze_image: the retry loop
\* s.lower(), on the letters that occur in the messages below
UpperLetters == "ABCDEFGHIJKLMNOPQRSTUVWXYZ"
LowerLetters == "abcdefghijklmnopqrstuvwxyz"

LowerChar(c) ==
    IF \E i \in 1..Len(UpperLetters) : SubSeq(UpperLetters, i, i) = c
    THEN LET i == CHOOSE j \in 1..Len(UpperLetters) : SubSeq(UpperLetters, j, j) = c
         IN  SubSeq(LowerLetters, i, i)
    ELSE c

RECURSIVE Lower(_)
Lower(s) ==
    IF Len(s) = 0 THEN ""
    ELSE LowerChar(SubSeq(s, 1, 1)) \o Lower(SubSeq(s, 2, Len(s)))

\* pattern in s
ContainsStr(s, pattern) ==
    \E i \in 1..(Len(s) - Len(pattern) + 1) : SubSeq(s, i, i + Len(pattern) - 1) = pattern

\* the test that sends a failed attempt to the retry path
IsTransientMessage(error_msg) ==
    \/ ContainsStr(Lower(error_msg), "timeout")
    \/ ContainsStr(error_msg, "504")
    \/ ContainsStr(error_msg, "429")

\* what the backend can answer to one attempt: a reply, or an exception
\* whose str() is text
Replies ==
    {[ok |-> TRUE, kind |-> "reply", text |-> t] : t \in {"# Title\nalpha", "beta"}}

Failures ==
    { [ok |-> FALSE, kind |-> "timeout", text |-> "Request timed out."],
      [ok |-> FALSE, kind |-> "timeout", text |-> "Read Timeout on endpoint"],
      [ok |-> FALSE, kind |-> "rate_limit", text |-> "Error code: 429 - Too Many Requests"],
      [ok |-> FALSE, kind |-> "gateway_timeout", text |-> "Error code: 504"],
      [ok |-> FALSE, kind |-> "unavailable", text |-> "Error code: 503 - Service Unavailable"],
      [ok |-> FALSE, kind |-> "auth", text |-> "Error code: 401 - Incorrect API key"],
      [ok |-> FALSE, kind |-> "bad_request", text |-> "Error code: 400 - image 4290 too large"] }

Outcomes == Replies \cup Failures

\* the two error strings of analyze_image
ErrorText(page, tries, error_msg) ==
    "X page " \o ToString(page) \o " error (tried " \o ToString(tries) \o " times): " \o error_msg

FallbackText(page) == "X page " \o ToString(page) \o " failed: max retries reached"

\* mutant of LoopBody: `attempt < max_retries` in place of `attempt < max_retries - 1`
LoopBodyRetriesAfterLast(st, outcome, retries, page) ==
    IF outcome.ok THEN [st EXCEPT !.ret = [done |-> TRUE, text |-> outcome.text]]
    ELSE IF st.attempt < retries /\ IsTransientMessage(outcome.text)
    THEN [st EXCEPT !.waits = Append(@, (st.attempt + 1) * 5), !.attempt = @ + 1]
    ELSE [st EXCEPT !.ret = [done |-> TRUE, text |-> ErrorText(page, st.attempt + 1, outcome.text)]]

\* mutant of LoopBody: the error string reports `attempt`, not `attempt + 1`
LoopBodyCountsFromZero(st, outcome, retries, page) ==
    IF outcome.ok THEN [st EXCEPT !.ret = [done |-> TRUE, text |-> outcome.text]]
    ELSE IF st.attempt < retries - 1 /\ IsTransientMessage(outcome.text)
    THEN [st EXCEPT !.waits = Append(@, (st.attempt + 1) * 5), !.attempt = @ + 1]
    ELSE [st EXCEPT !.ret = [done |-> TRUE, text |-> ErrorText(page, st.attempt, outcome.text)]]

\* mutant of LoopBody: wait_time = 5 before every retry
LoopBodyConstantWait(st, outcome, retries, page) ==
    IF outcome.ok THEN [st EXCEPT !.ret = [done |-> TRUE, text |-> outcome.text]]
    ELSE IF st.attempt < retries - 1 /\ IsTransientMessage(outcome.text)
    THEN [st EXCEPT !.waits = Append(@, 5), !.attempt = @ + 1]
    ELSE [st EXCEPT !.ret = [done |-> TRUE, text |-> ErrorText(page, st.attempt + 1, outcome.text)]]

\* one iteration of `for attempt in range(self.max_retries)`, given what the
\* backend answers; st = [attempt, waits, ret]
LoopBody(st, outcome, retries, page) ==
    IF outcome.ok THEN [st EXCEPT !.ret = [done |-> TRUE, text |-> outcome.text]]
    ELSE IF st.attempt < retries - 1 /\ IsTransientMessage(outcome.text)
    THEN [st EXCEPT !.waits = Append(@, (st.attempt + 1) * 5), !.attempt = @ + 1]
    ELSE [st EXCEPT !.ret = [done |-> TRUE, text |-> ErrorText(page, st.attempt + 1, outcome.text)]]

\* the same iteration in ClaudeHandler.analyze_image
\* mutant of ClaudeLoopBody: a transient failure is retried on the last
\* attempt too
ClaudeLoopBodyRetriesOnLast(st, outcome, retries, page) ==
    IF outcome.ok THEN [st EXCEPT !.ret = [done |-> TRUE, text |-> outcome.text]]
    ELSE IF IsTransientMessage(outcome.text)
    THEN [st EXCEPT !.waits = Append(@, (st.attempt + 1) * 5), !.attempt = @ + 1]
    ELSE [st EXCEPT !.ret = [done |-> TRUE, text |-> ErrorText(page, st.attempt + 1, outcome.text)]]

ClaudeLoopBody(st, outcome, retries, page) ==
    IF outcome.ok THEN [st EXCEPT !.ret = [done |-> TRUE, text |-> outcome.text]]
    ELSE IF st.attempt < retries - 1 /\ IsTransientMessage(outcome.text)
    THEN [st EXCEPT !.waits = Append(@, (st.attempt + 1) * 5), !.attempt = @ + 1]
    ELSE [st EXCEPT !.ret = [done |-> TRUE, text |-> ErrorText(page, st.attempt + 1, outcome.text)]]

\* mutant of GeminiLoopBody: the except branch returns the error at once
GeminiLoopBodyNoRetry(st, outcome, retries, page) ==
    IF outcome.ok THEN [st EXCEPT !.ret = [done |-> TRUE, text |-> outcome.text]]
    ELSE [st EXCEPT !.ret = [done |-> TRUE, text |-> ErrorText(page, st.attempt + 1, outcome.text)]]

\* the same iteration in GeminiHandler.analyze_image
GeminiLoopBody(st, outcome, retries, page) ==
    IF outcome.ok THEN [st EXCEPT !.ret = [done |-> TRUE, text |-> outcome.text]]
    ELSE IF st.attempt < retries - 1 /\ IsTransientMessage(outcome.text)
    THEN [st EXCEPT !.waits = Append(@, (st.attempt + 1) * 5), !.attempt = @ + 1]
    ELSE [st EXCEPT !.ret = [done |-> TRUE, text |-> ErrorText(page, st.attempt + 1, outcome.text)]]

\* the classes create_llm_handler chooses from
Providers == {"openai", "claude", "gemini"}

\* the loop body of the class that create_llm_handler built for `prov`
LoopBodyOf(prov, st, outcome, retries, page) ==
    CASE prov = "openai" -> LoopBody(st, outcome, retries, page)
      [] prov = "claude" -> ClaudeLoopBody(st, outcome, retries, page)
      [] prov = "gemini" -> GeminiLoopBody(st, outcome, retries, page)

\* mutant of SelfAfterAttempt: the attempts left are counted down on self
SelfAfterAttemptCountsDown(self) == [self EXCEPT !.max_retries = @ - 1]

\* the attributes of self after one loop iteration: the iteration reads
\* self.max_retries, self.client, self.model and assigns none
SelfAfterAttempt(self) == self

Running == [done |-> FALSE, text |-> ""]

RetryInit ==
    /\ ParseIdle
    /\ ContextIdle
    /\ RunIdle
    /\ CacheIdle
    /\ provider \in Providers
    /\ timeout = 60
    /\ max_retries \in 0..MaxRetriesBound
    /\ entry = Attributes(max_retries, timeout, previous_summaries)
    /\ earlier = << >>
    /\ page_num \in 1..2
    /\ attempt = 0
    /\ backend_log = << >>
    /\ waits = << >>
    /\ ret = Running

\* an attempt: the backend is called and answers, the loop body runs
Attempt ==
    /\ ~ret.done
    /\ attempt < max_retries
    /\ \E outcome \in Outcomes :
          LET st == LoopBodyOf(provider, [attempt |-> attempt, waits |-> waits, ret |-> ret],
                               outcome, max_retries, page_num)
              self == SelfAfterAttempt(Attributes(max_retries, timeout, previous_summaries))
          IN  /\ attempt' = st.attempt
              /\ waits' = st.waits
              /\ ret' = st.ret
              /\ backend_log' = Append(backend_log, outcome)
              /\ max_retries' = self.max_retries
              /\ timeout' = self.timeout
              /\ previous_summaries' = self.previous_summaries
    /\ UNCHANGED <<page_num, provider, entry, earlier, max_context_pages, ctx_before, ctx_arg,
                   ctx_calls, parseVars, runVars, cacheVars>>

\* the loop ends without a return: the statement after it
LoopEnds ==
    /\ ~ret.done
    /\ attempt >= max_retries
    /\ ret' = [done |-> TRUE, text |-> FallbackText(page_num)]
    /\ UNCHANGED <<max_retries, page_num, attempt, backend_log, waits, parseVars, ctxVars,
                   runVars, cacheVars, handlerVars>>

RetryNext == Attempt \/ LoopEnds

SpecRetry == RetryInit /\ [][RetryNext]_vars

\* the call runs in one thread and every backend call returns or raises
\* within the client's timeout, so a loop that can take a step takes it
SpecRetryFair == SpecRetry /\ WF_vars(RetryNext)

\* every attempt so far failed with an error the loop retries on
AllTransient ==
    \A i \in 1..Len(backend_log) :
        ~backend_log[i].ok /\ IsTransientMessage(backend_log[i].text)

EndedInFailure ==
    /\ ret.done
    /\ Len(backend_log) > 0
    /\ ~backend_log[Len(backend_log)].ok

\* the call returned something other than a reply of the backend
EndedWithoutReply ==
    /\ ret.done
    /\ Len(backend_log) = 0 \/ ~backend_log[Len(backend_log)].ok

\* C14 (as stated): whenever analyze_image ends in failure, by an error that
\* is not retried or by exhausting its retries, the returned error string
\* embeds the page number and the number of attempts made.
C14_EveryFailureEmbedsPageAndAttempts ==
    EndedWithoutReply =>
        /\ ContainsStr(ret.text, "page " \o ToString(page_num) \o " ")
        /\ ContainsStr(ret.text, ToString(Len(backend_log)))

\* C14 (amended): whenever analyze_image ends on a failed attempt (a failure
\* the loop does not retry, or a failure of the last allowed attempt, so
\* max_retries >= 1), that attempt is the last backend call of the
\* invocation and the returned string embeds the page number and the number
\* of attempts made.
C14_FailureEndsCallWithCountedError ==
    /\ [](EndedInFailure =>
            LET n == Len(backend_log) IN
            /\ n = attempt + 1
            /\ n <= max_retries
            /\ \/ n = max_retries
               \/ ~IsTransientMessage(backend_log[n].text)
            /\ ret.text = ErrorText(page_num, n, backend_log[n].text)
            /\ ContainsStr(ret.text, "page " \o ToString(page_num) \o " ")
            /\ ContainsStr(ret.text, "(tried " \o ToString(n) \o " times)"))
    /\ [][ret.done => backend_log' = backend_log]_vars

\* a rejected key on the second attempt, after one rate-limit answer
C14_Witness ==
    /\ EndedInFailure
    /\ page_num = 2
    /\ Len(backend_log) = 2
    /\ backend_log[2].kind = "auth"
    /\ ret.text = "X page 2 error (tried 2 times): Error code: 401 - Incorrect API key"

\* the kinds of failure the specification calls transient
TransientKinds == {"timeout", "gateway_timeout", "rate_limit", "unavailable"}

\* failed attempt i was followed by a wait and another attempt
Retried(i) == i <= Len(waits)

\* C15: a failed attempt that is not the last allowed one is retried exactly
\* when the failure is a timeout, a rate-limit error or a server-side
\* service-unavailable error; every other failure ends the call.
C15_TransientExactlyTimeoutRateLimitUnavailable ==
    \A i \in 1..Len(backend_log) :
        (~backend_log[i].ok /\ i < max_retries /\ (i < Len(backend_log) \/ ret.done)) =>
            (Retried(i) <=> backend_log[i].kind \in TransientKinds)

\* C16: with max_retries >= 1 the call ends, after at most max_retries
\* backend attempts; when attempt k is the first to succeed, all earlier
\* ones having failed with retried errors, the call returns that attempt's
\* text unchanged after exactly k attempts and waits of 5, 10, ..., 5*(k-1),
\* and nothing more happens in the call.
C16_EndsWithinMaxRetries ==
    /\ [](max_retries >= 1 =>
            /\ Len(backend_log) <= max_retries
            /\ (ret.done /\ Len(backend_log) > 0 /\ backend_log[Len(backend_log)].ok) =>
                  LET k == Len(backend_log) IN
                  /\ ret.text = backend_log[k].text
                  /\ k = attempt + 1
                  /\ waits = [i \in 1..(k - 1) |-> 5 * i]
                  /\ \A i \in 1..(k - 1) :
                        ~backend_log[i].ok /\ IsTransientMessage(backend_log[i].text))
    /\ (max_retries >= 1 => <>ret.done)
    /\ [][ret.done => UNCHANGED <<backend_log, waits, ret, attempt>>]_vars

\* two rate-limit answers, then a reply at the third attempt
C16_Witness ==
    /\ ret.done
    /\ max_retries = 3
    /\ Len(backend_log) = 3
    /\ backend_log[3].ok
    /\ ret.text = backend_log[3].text
    /\ waits = <<5, 10>>

\* the loop of the class built for `prov`, run on the answers the backend
\* gave: it stops where the call returns or the answers end
RECURSIVE RunOn(_, _, _, _, _)
RunOn(prov, st, outcomes, retries, page) ==
    IF st.ret.done THEN st
    ELSE IF st.attempt >= retries
    THEN [st EXCEPT !.ret = [done |-> TRUE, text |-> FallbackText(page)]]
    ELSE IF st.attempt >= Len(outcomes) THEN st
    ELSE RunOn(prov, LoopBodyOf(prov, st, outcomes[st.attempt + 1], retries, page),
               outcomes, retries, page)

\* success, recovered error, or the string after the loop
ResultKind(outcomes, st) ==
    IF ~st.ret.done THEN "running"
    ELSE IF st.attempt < Len(outcomes) /\ outcomes[st.attempt + 1].ok THEN "reply"
    ELSE IF st.attempt < Len(outcomes) THEN "error"
    ELSE "fallback"

\* C19: the three provider classes implement one retry policy: on the same
\* max_retries and the same sequence of backend outcomes each of them makes
\* the attempts, waits the delays and returns the result that the handler
\* which ran made, waited and returned.
C19_ProvidersShareRetryPolicy ==
    ret.done =>
        \A prov \in Providers :
            LET st == RunOn(prov, [attempt |-> 0, waits |-> << >>, ret |-> Running],
                            backend_log, max_retries, page_num)
                here == [attempt |-> attempt, waits |-> waits, ret |-> ret]
            IN  /\ st.attempt = attempt
                /\ st.waits = waits
                /\ st.ret = ret
                /\ ResultKind(backend_log, st) = ResultKind(backend_log, here)

\* the Gemini handler: two retried failures, then an error at attempt 3
C19_Witness ==
    /\ ret.done
    /\ provider = "gemini"
    /\ Len(backend_log) = 3
    /\ ~backend_log[3].ok
    /\ waits = <<5, 10>>

\* C25: the return after the retry loop ("max retries reached", without an
\* attempt count) is reached only when max_retries <= 0, and then the call
\* has made no backend call at all; for max_retries >= 1 every return is
\* inside the loop, on the reply or on the failure that decides the call.
C25_FallbackOnlyWithoutAttempts ==
    /\ ret.done =>
          LET here == [attempt |-> attempt, waits |-> waits, ret |-> ret]
              kind == ResultKind(backend_log, here)
          IN  /\ kind = "fallback" <=> max_retries <= 0
              /\ ret.text = FallbackText(page_num) <=> max_retries <= 0
              /\ max_retries <= 0 => backend_log = << >> /\ waits = << >>
              /\ max_retries >= 1 =>
                    /\ attempt < max_retries
                    /\ Len(backend_log) = attempt + 1
                    /\ LET last == backend_log[Len(backend_log)] IN
                       /\ kind = (IF last.ok THEN "reply" ELSE "error")
                       /\ ret.text = IF last.ok THEN last.text
                                     ELSE ErrorText(page_num, attempt + 1, last.text)
    /\ \A prov \in Providers, retries \in {0 - 1, 0}, outcome \in Outcomes :
          LET st == RunOn(prov, [attempt |-> 0, waits |-> << >>, ret |-> Running],
                          <<outcome>>, retries, page_num)
          IN  /\ st.ret = [done |-> TRUE, text |-> FallbackText(page_num)]
              /\ st.attempt = 0
              /\ st.waits = << >>

\* a handler built with max_retries = 0 has returned without a backend call
C25_Witness ==
    /\ max_retries = 0
    /\ ret.done
    /\ ret.text = FallbackText(page_num)
    /\ backend_log = << >>
    /\ ResultKind(backend_log, [attempt |-> attempt, waits |-> waits, ret |-> ret]) = "fallback"

\* ------------------------------------------ LLMHandler.extract_summary
\* longest summary body, in characters
SummaryLimit == 200

\* text.split('\n')
RECURSIVE SplitLinesFrom(_, _, _)
SplitLinesFrom(text, i, cur) ==
    IF i > Len(text) THEN <<cur>>
    ELSE IF SubSeq(text, i, i) = "\n" THEN <<cur>> \o SplitLinesFrom(text, i + 1, "")
    ELSE SplitLinesFrom(text, i + 1, cur \o SubSeq(text, i, i))

SplitLines(text) == SplitLinesFrom(text, 1, "")

\* line.strip()
RECURSIVE StripText(_)
StripText(line) ==
    IF Len(line) > 0 /\ SubSeq(line, 1, 1) = " " THEN StripText(SubSeq(line, 2, Len(line)))
    ELSE IF Len(line) > 0 /\ SubSeq(line, Len(line), Len(line)) = " "
    THEN StripText(SubSeq(line, 1, Len(line) - 1))
    ELSE line

\* the loop over lines: blank lines and headings are skipped, the loop stops
\* once more than SummaryLimit characters were taken
RECURSIVE SummaryLines(_, _, _, _)
SummaryLines(lines, i, summary_lines, char_count) ==
    IF i > Len(lines) \/ char_count > SummaryLimit THEN summary_lines
    ELSE IF StripText(lines[i]) # "" /\ ~(Len(lines[i]) > 0 /\ SubSeq(lines[i], 1, 1) = "#")
    THEN SummaryLines(lines, i + 1, Append(summary_lines, StripText(lines[i])),
                      char_count + Len(lines[i]))
    ELSE SummaryLines(lines, i + 1, summary_lines, char_count)

\* ' '.join(summary_lines)
RECURSIVE JoinWords(_)
JoinWords(parts) ==
    IF Len(parts) = 0 THEN ""
    ELSE IF Len(parts) = 1 THEN parts[1]
    ELSE parts[1] \o " " \o JoinWords(Tail(parts))

\* text[:n]
Prefix(text, n) == IF Len(text) <= n THEN text ELSE SubSeq(text, 1, n)

\* extract_summary(analysis_text, page_num)
extract_summary(analysis_text, page) ==
    "[page " \o ToString(page) \o " summary] "
        \o Prefix(JoinWords(SummaryLines(SplitLines(analysis_text), 1, << >>, 0)), SummaryLimit)

\* ----------------------------------- claims on the rendered context
\* C17: with K = 0 the context is disabled: after any number of
\* add_to_context calls the window is empty and get_context_string gives
\* the empty string; with K >= 1 and a non-empty window the string is a
\* block that lists every retained summary, one per line, in the order of
\* the pushes.
C17_ZeroDisablesElseRendersInOrder ==
    LET rendered == get_context_string(previous_summaries)
        lines == SplitLines(rendered)
        pushed == ctx_before \o <<ctx_arg>>
        n == Len(previous_summaries)
    IN  /\ max_context_pages = 0 =>
              /\ previous_summaries = << >>
              /\ rendered = ""
        /\ (max_context_pages >= 1 /\ n > 0) =>
              /\ rendered # ""
              /\ Len(lines) = n + 4
              /\ \A i \in 1..n : lines[i + 3] = previous_summaries[i]
              /\ previous_summaries = SubSeq(pushed, Len(pushed) - n + 1, Len(pushed))

\* K = 3 and three pushes: the block lists the three summaries, oldest first
C17_Witness ==
    /\ max_context_pages = 3
    /\ ctx_calls = 3
    /\ previous_summaries = <<"[p3] gamma", "[p1] alpha", "[p2] beta">>
    /\ get_context_string(previous_summaries) =
          "\n\nSummary of the previous pages:\n[p3] gamma\n[p1] alpha\n[p2] beta\n"

\* ------------------------------ one handler, several analyze_image calls
\* the handlers calls are made on: one as create_llm_handler builds it, one
\* built with a shorter timeout whose caller has pushed two summaries
Handlers ==
    {[timeout |-> 60, window |-> << >>],
     [timeout |-> 30, window |-> <<"[p1] alpha", "[p2] beta">>]}

HandlerInit ==
    /\ ParseIdle
    /\ RunIdle
    /\ CacheIdle
    /\ provider \in Providers
    /\ max_retries \in 0..MaxRetriesBound
    /\ \E handler \in Handlers :
          /\ timeout = handler.timeout
          /\ previous_summaries = handler.window
    /\ max_context_pages = 3
    /\ ctx_before = << >>
    /\ ctx_arg = ""
    /\ ctx_calls = 0
    /\ entry = Attributes(max_retries, timeout, previous_summaries)
    /\ earlier = << >>
    /\ page_num = 1
    /\ attempt = 0
    /\ backend_log = << >>
    /\ waits = << >>
    /\ ret = Running

\* the call has returned and the caller calls analyze_image for the next page
NextCall ==
    /\ ret.done
    /\ Len(earlier) + 1 < MaxCalls
    /\ earlier' = Append(earlier, ResultKind(backend_log,
                                             [attempt |-> attempt, waits |-> waits, ret |-> ret]))
    /\ entry' = Attributes(max_retries, timeout, previous_summaries)
    /\ page_num' = page_num + 1
    /\ attempt' = 0
    /\ backend_log' = << >>
    /\ waits' = << >>
    /\ ret' = Running
    /\ UNCHANGED <<max_retries, timeout, provider, ctxVars, parseVars, runVars, cacheVars>>

HandlerNext == Attempt \/ LoopEnds \/ NextCall

SpecHandler == HandlerInit /\ [][HandlerNext]_vars

\* C18: analyze_image changes no state of the handler: at every point of a
\* call the context window, max_retries and timeout are what they were when
\* the call began, whatever the backend answered, and what a call makes,
\* waits and returns is fixed by its own page, the backend's answers to it
\* and those attributes, however the earlier calls on the handler ended.
C18_CallLeavesHandlerUnchanged ==
    /\ Attributes(max_retries, timeout, previous_summaries) = entry
    /\ ret.done =>
          RunOn(provider, [attempt |-> 0, waits |-> << >>, ret |-> Running],
                backend_log, entry.max_retries, page_num)
              = [attempt |-> attempt, waits |-> waits, ret |-> ret]
    /\ ~ret.done => attempt = Len(backend_log) /\ Len(waits) = Len(backend_log)

\* the call for page 1 used up its three attempts; the call for page 2 on
\* the same handler still has three, fails twice and gets its reply
C18_Witness ==
    /\ earlier = <<"error">>
    /\ entry = Attributes(3, 30, <<"[p1] alpha", "[p2] beta">>)
    /\ page_num = 2
    /\ ret.done
    /\ Len(backend_log) = 3
    /\ backend_log[3].ok
    /\ ret.text = backend_log[3].text

\* ------------------------------------ analyze_image as one call
\* the loop run to its return, outcomes[i] being the backend's answer to
\* attempt i
RECURSIVE RunLoop(_, _, _, _)
RunLoop(st, outcomes, retries, page) ==
    IF st.ret.done THEN st
    ELSE IF st.attempt >= retries
    THEN [st EXCEPT !.ret = [done |-> TRUE, text |-> FallbackText(page)]]
    ELSE RunLoop(LoopBody(st, outcomes[st.attempt + 1], retries, page), outcomes, retries, page)

\* analyze_image(image_path, page_num, ...): the returned text
analyze_image(outcomes, retries, page) ==
    RunLoop([attempt |-> 0, waits |-> << >>, ret |-> Running], outcomes, retries, page).ret.text

\* ------------------------------------------------------ ResultCache
NoCache == [hit |-> FALSE, results |-> << >>]

\* mutant of save_cache: one record for the directory, whatever the source
save_cache_one_slot(store, results, fp) ==
    [f \in DOMAIN store |-> [hit |-> TRUE, results |-> results]]

\* save(results, fingerprint): the record of this fingerprint is overwritten
save_cache(store, results, fp) ==
    [store EXCEPT ![fp] = [hit |-> TRUE, results |-> results]]

\* load(fingerprint): the stored sequence, or "no cache"
load_cache(store, fp) == store[fp]

\* ----------------------------------------------------------- main()
Sources == {"a.pdf", "b.pdf"}

\* processor.get_page_count()
PageCount(pdf) == IF pdf = "a.pdf" THEN SmallDocPages ELSE LargeDocPages

\* the fingerprint of a source file's bytes
Fingerprint(pdf) == "md5:" \o pdf

\* the values of --pages: all pages, one page, a reversed range, a page
\* beyond the end
PageArgs == {<< >>, <<"2">>, <<"2", "-", "1">>, <<"9", "9">>}

\* what the backend does during one analyze_image call, attempt by attempt
ReplyNow == [ok |-> TRUE, kind |-> "reply", text |-> "# Title\nalpha"]
RateLimited == [ok |-> FALSE, kind |-> "rate_limit", text |-> "Error code: 429 - Too Many Requests"]
AuthFailure == [ok |-> FALSE, kind |-> "auth", text |-> "Error code: 401 - Incorrect API key"]

BackendScripts(page) ==
    IF page <= MaxFaultyPage
    THEN {[i \in 1..MaxRetriesBound + 1 |-> ReplyNow],
          [i \in 1..MaxRetriesBound + 1 |-> IF i = 1 THEN RateLimited ELSE ReplyNow],
          [i \in 1..MaxRetriesBound + 1 |-> AuthFailure],
          [i \in 1..MaxRetriesBound + 1 |-> RateLimited]}
    ELSE {[i \in 1..MaxRetriesBound + 1 |-> ReplyNow]}

\* f"page_{page_num:04d}.png" under the image directory
ImagePath(page) ==
    "images/page_" \o (IF page < 10 THEN "000" ELSE IF page < 100 THEN "00" ELSE "0")
        \o ToString(page) \o ".png"

\* image_paths[page_num]
Lookup(image_paths, page) ==
    (CHOOSE e \in {image_paths[i] : i \in 1..Len(image_paths)} : e[1] = page)[2]

\* mutant of AppendAnalysis: a result that is an error text is not kept
AppendAnalysisSkipErrors(analyses, page, image_path, analysis) ==
    IF SubSeq(analysis, 1, 1) = "X" THEN analyses
    ELSE Append(analyses, <<page, image_path, analysis>>)

\* analyses.append((page_num, image_path, analysis))
AppendAnalysis(analyses, page, image_path, analysis) ==
    Append(analyses, <<page, image_path, analysis>>)

\* mutant of PauseAfter: the pause follows every page, the last one included
PauseAfterEveryPage(page, pages) == TRUE

\* `if page_num < pages_to_process[-1]`: the pause follows this page
PauseAfter(page, pages) == page < pages[Len(pages)]

\* the state of main() at its first statement
FreshRun(pdf, pages, no_cache) ==
    [pc |-> "validate",
     pdf_file |-> pdf,
     pages |-> pages,
     no_cache |-> no_cache,
     cached_analyses |-> NoCache,
     cache_reads |-> 0,
     used_cache |-> FALSE,
     total_pages |-> 0,
     pages_to_process |-> << >>,
     idx |-> 1,
     extract_log |-> << >>,
     image_paths |-> << >>,
     analyses |-> << >>,
     llm_calls |-> << >>,
     sleeps |-> 0,
     cache_writes |-> 0,
     handed |-> [done |-> FALSE, results |-> << >>],
     exit_reason |-> ""]

Exit(reason) == [run EXCEPT !.pc = "exit", !.exit_reason = reason]

CachingOn == enable_cache /\ ~run.no_cache

\* a value the statement `if cached_analyses:` takes as true
Truthy(cached) == cached.hit /\ Len(cached.results) > 0

RunInit ==
    /\ ParseIdle
    /\ ContextIdle
    /\ RetryIdle
    /\ CacheIdle
    /\ HandlerIdle
    /\ run \in {FreshRun(pdf, pages, no_cache) :
                    pdf \in Sources, pages \in PageArgs, no_cache \in BOOLEAN}
    /\ run_no = 1
    /\ enable_cache \in BOOLEAN
    /\ cache_store = [fp \in {Fingerprint(pdf) : pdf \in Sources} |-> NoCache]

Frame == UNCHANGED <<parseVars, ctxVars, retryVars, cacheVars, handlerVars, run_no, enable_cache>>

\* validate_pdf_file and Config.validate: either one can end the run
Validate ==
    /\ run.pc = "validate"
    /\ \E valid \in BOOLEAN :
          run' = IF valid THEN [run EXCEPT !.pc = "check_cache"] ELSE Exit("invalid_input")
    /\ UNCHANGED cache_store
    /\ Frame

\* the cache is looked up when caching is on
CheckCache ==
    /\ run.pc = "check_cache"
    /\ run' =
          IF CachingOn
          THEN LET cached == load_cache(cache_store, Fingerprint(run.pdf_file))
               IN  [run EXCEPT !.cached_analyses = cached,
                               !.cache_reads = @ + 1,
                               !.pc = IF Truthy(cached) THEN "ask_cache" ELSE "open_pdf"]
          ELSE [run EXCEPT !.pc = "open_pdf"]
    /\ UNCHANGED cache_store
    /\ Frame

\* mutant of AnswerCache: the cached results are taken and the document is
\* processed all the same
AnswerCacheStillProcesses ==
    /\ run.pc = "ask_cache"
    /\ \E use_cache \in {"y", "n"} :
          run' = IF use_cache # "y"
                 THEN [run EXCEPT !.cached_analyses = NoCache, !.pc = "open_pdf"]
                 ELSE [run EXCEPT !.analyses = run.cached_analyses.results,
                                  !.used_cache = TRUE,
                                  !.pc = "open_pdf"]
    /\ UNCHANGED cache_store
    /\ UNCHANGED <<parseVars, ctxVars, retryVars, cacheVars, handlerVars, run_no, enable_cache>>

\* mutant of AnswerCache: the cached results are cut down to the pages the
\* range expression asks for
AnswerCacheAppliesRange ==
    /\ run.pc = "ask_cache"
    /\ \E use_cache \in {"y", "n"} :
          LET parsed == parse_page_range(run.pages, PageCount(run.pdf_file))
              wanted == {parsed.pages[i] : i \in 1..Len(parsed.pages)}
          IN  run' = IF use_cache # "y"
                     THEN [run EXCEPT !.cached_analyses = NoCache, !.pc = "open_pdf"]
                     ELSE [run EXCEPT !.analyses = SelectSeq(run.cached_analyses.results,
                                                             LAMBDA r : r[1] \in wanted),
                                      !.used_cache = TRUE,
                                      !.pc = IF parsed.status = "error" THEN "exit"
                                             ELSE "generate",
                                      !.exit_reason = IF parsed.status = "error"
                                                      THEN "range_error" ELSE ""]
    /\ UNCHANGED cache_store
    /\ UNCHANGED <<parseVars, ctxVars, retryVars, cacheVars, handlerVars, run_no, enable_cache>>

\* the answer to "use the cache? (y/n)"
AnswerCache ==
    /\ run.pc = "ask_cache"
    /\ \E use_cache \in {"y", "n"} :
          run' = IF use_cache # "y"
                 THEN [run EXCEPT !.cached_analyses = NoCache, !.pc = "open_pdf"]
                 ELSE [run EXCEPT !.analyses = run.cached_analyses.results,
                                  !.used_cache = TRUE,
                                  !.pc = "generate"]
    /\ UNCHANGED cache_store
    /\ Frame

\* the document is opened and the page range parsed
SelectPages ==
    /\ run.pc = "open_pdf"
    /\ LET total == PageCount(run.pdf_file)
           parsed == parse_page_range(run.pages, total)
       IN  run' = IF parsed.status = "error" THEN Exit("range_error")
                  ELSE [run EXCEPT !.total_pages = total,
                                   !.pages_to_process = parsed.pages,
                                   !.pc = IF Len(parsed.pages) > 5 THEN "confirm"
                                          ELSE "extract"]
    /\ UNCHANGED cache_store
    /\ Frame

\* the answer to "continue? (y/n)", asked for more than five pages
Confirm ==
    /\ run.pc = "confirm"
    /\ \E confirm \in {"y", "n"} :
          run' = IF confirm # "y" THEN Exit("cancelled") ELSE [run EXCEPT !.pc = "extract"]
    /\ UNCHANGED cache_store
    /\ Frame

\* mutant of ExtractImage: a page that cannot be rendered is passed over and
\* the loop goes on, as it does for a failed model call
ExtractImageRecoversPerPage ==
    /\ run.pc = "extract"
    /\ run.idx <= Len(run.pages_to_process)
    /\ \E rendered \in BOOLEAN :
          LET page == run.pages_to_process[run.idx]
          IN  run' = [run EXCEPT !.extract_log = Append(@, [page |-> page, ok |-> rendered]),
                                 !.image_paths = Append(@, <<page, ImagePath(page)>>),
                                 !.idx = @ + 1]
    /\ UNCHANGED cache_store
    /\ UNCHANGED <<parseVars, ctxVars, retryVars, cacheVars, handlerVars, run_no, enable_cache>>

\* one iteration of the extraction loop: the page is rendered and saved, or
\* the renderer raises and the exception ends the run
ExtractImage ==
    /\ run.pc = "extract"
    /\ run.idx <= Len(run.pages_to_process)
    /\ \E rendered \in BOOLEAN :
          LET page == run.pages_to_process[run.idx]
              logged == [run EXCEPT !.extract_log = Append(@, [page |-> page, ok |-> rendered])]
          IN  run' = IF rendered
                     THEN [logged EXCEPT !.image_paths = Append(@, <<page, ImagePath(page)>>),
                                         !.idx = @ + 1]
                     ELSE [logged EXCEPT !.pc = "exit", !.exit_reason = "extraction_error"]
    /\ UNCHANGED cache_store
    /\ Frame

\* the extraction loop is over: the handler is created
CreateHandler ==
    /\ run.pc = "extract"
    /\ run.idx > Len(run.pages_to_process)
    /\ run' = [run EXCEPT !.pc = "analyze", !.idx = 1]
    /\ UNCHANGED cache_store
    /\ Frame

\* one iteration of the analysis loop; the call passes image_path, page_num
\* and the page text, so previous_context keeps its default ""
AnalyzePage ==
    /\ run.pc = "analyze"
    /\ run.idx <= Len(run.pages_to_process)
    /\ \E script \in BackendScripts(run.pages_to_process[run.idx]) :
          LET page == run.pages_to_process[run.idx]
              image_path == Lookup(run.image_paths, page)
              analysis == analyze_image(script, max_retries, page)
              pause == PauseAfter(page, run.pages_to_process)
          IN  run' = [run EXCEPT
                        !.llm_calls = Append(@, [page |-> page, previous_context |-> "",
                                                 returned |-> analysis, slept |-> pause]),
                        !.analyses = AppendAnalysis(@, page, image_path, analysis),
                        !.sleeps = IF pause THEN @ + 1 ELSE @,
                        !.idx = @ + 1]
    /\ UNCHANGED cache_store
    /\ Frame

\* an explanation that is one of the error strings of analyze_image
IsErrorText(text) == SubSeq(text, 1, 1) = "X"

\* mutant of SaveCache: the record is written whether or not caching is on
SaveCacheIgnoresSwitch ==
    /\ run.pc = "analyze"
    /\ run.idx > Len(run.pages_to_process)
    /\ cache_store' = save_cache(cache_store, run.analyses, Fingerprint(run.pdf_file))
    /\ run' = [run EXCEPT !.pc = "generate", !.cache_writes = @ + 1]
    /\ UNCHANGED <<parseVars, ctxVars, retryVars, cacheVars, handlerVars, run_no, enable_cache>>

\* mutant of SaveCache: a run with a failed page keeps its results out of
\* the cache
SaveCacheSkipsFailedRuns ==
    /\ run.pc = "analyze"
    /\ run.idx > Len(run.pages_to_process)
    /\ IF CachingOn /\ ~\E i \in 1..Len(run.analyses) : IsErrorText(run.analyses[i][3])
       THEN /\ cache_store' = save_cache(cache_store, run.analyses, Fingerprint(run.pdf_file))
            /\ run' = [run EXCEPT !.pc = "generate", !.cache_writes = @ + 1]
       ELSE /\ run' = [run EXCEPT !.pc = "generate"]
            /\ UNCHANGED cache_store
    /\ UNCHANGED <<parseVars, ctxVars, retryVars, cacheVars, handlerVars, run_no, enable_cache>>

\* the analysis loop is over: the document is closed and the cache written
SaveCache ==
    /\ run.pc = "analyze"
    /\ run.idx > Len(run.pages_to_process)
    /\ IF CachingOn
       THEN /\ cache_store' = save_cache(cache_store, run.analyses, Fingerprint(run.pdf_file))
            /\ run' = [run EXCEPT !.pc = "generate", !.cache_writes = @ + 1]
       ELSE /\ run' = [run EXCEPT !.pc = "generate"]
            /\ UNCHANGED cache_store
    /\ Frame

\* the results go to document generation and the run is complete
Generate ==
    /\ run.pc = "generate"
    /\ run' = [run EXCEPT !.handed = [done |-> TRUE, results |-> run.analyses],
                          !.pc = "completed"]
    /\ UNCHANGED cache_store
    /\ Frame

\* KeyboardInterrupt while pages are extracted or analysed
Interrupt ==
    /\ run.pc \in {"extract", "analyze"}
    /\ run' = Exit("interrupted")
    /\ UNCHANGED cache_store
    /\ Frame

\* the program is started again on the same output directory
NewRun ==
    /\ run.pc \in {"completed", "exit"}
    /\ run_no < MaxRuns
    /\ run_no' = run_no + 1
    /\ \E pdf \in Sources, pages \in PageArgs, no_cache \in BOOLEAN :
          run' = FreshRun(pdf, pages, no_cache)
    /\ UNCHANGED <<cache_store, parseVars, ctxVars, retryVars, cacheVars, handlerVars, enable_cache>>

Next ==
    \/ Validate
    \/ CheckCache
    \/ AnswerCache
    \/ SelectPages
    \/ Confirm
    \/ ExtractImage
    \/ CreateHandler
    \/ AnalyzePage
    \/ SaveCache
    \/ Generate
    \/ Interrupt
    \/ NewRun

Spec == RunInit /\ [][Next]_vars

\* --------------------------------------------------- claims on main()
\* C1: a failed model call never ends the run: every call's returned text,
\* error text included, is recorded as that page's explanation, the loop
\* goes on to the next selected page, a run that made a model call ends only
\* by completing or by a user interrupt, and a completed run holds exactly
\* one result per selected page.
C1_ModelFailureIsRecovered ==
    run.pc # "unused" =>
        /\ ~run.used_cache => Len(run.analyses) = Len(run.llm_calls)
        /\ \A i \in 1..Len(run.llm_calls) :
              /\ run.analyses[i][1] = run.llm_calls[i].page
              /\ run.analyses[i][3] = run.llm_calls[i].returned
              /\ run.llm_calls[i].page = run.pages_to_process[i]
        /\ (run.pc = "analyze") => Len(run.llm_calls) = run.idx - 1
        /\ (run.pc = "exit" /\ run.exit_reason # "interrupted") => run.llm_calls = << >>
        /\ (run.pc \in {"generate", "completed"} /\ ~run.used_cache) =>
              /\ Len(run.analyses) = Len(run.pages_to_process)
              /\ \A i \in 1..Len(run.analyses) : run.analyses[i][1] = run.pages_to_process[i]

\* a completed run over two pages: the call for page 1 exhausted its retries,
\* page 2 was analysed after it
C1_Witness ==
    /\ run.pc = "completed"
    /\ ~run.used_cache
    /\ run.pages_to_process = <<1, 2>>
    /\ Len(run.handed.results) = 2
    /\ run.handed.results[1][3] =
          ErrorText(1, 3, "Error code: 429 - Too Many Requests")
    /\ run.handed.results[2][3] = "# Title\nalpha"

\* the window the handler would hold before call i, had a summary of every
\* earlier page of the run been pushed
RECURSIVE WindowBefore(_)
WindowBefore(i) ==
    IF i <= 1 THEN << >>
    ELSE add_to_context(WindowBefore(i - 1),
                        extract_summary(run.llm_calls[i - 1].returned, run.llm_calls[i - 1].page),
                        max_context_pages)

\* C3: the prior context given to the model call for a page is the rendering
\* of the summaries of the (at most K) pages processed just before it, and a
\* summary is pushed after every page, whatever its outcome.
C3_PriorContextIsRecentSummaries ==
    run.pc # "unused" =>
        /\ \A i \in 1..Len(run.llm_calls) :
              run.llm_calls[i].previous_context = get_context_string(WindowBefore(i))
        /\ previous_summaries = WindowBefore(Len(run.llm_calls) + 1)

\* C9: when a valid cache entry exists and the caller chooses to use it, the
\* run goes straight to document generation: no image is extracted, no model
\* call is made, and the results handed over are the cached sequence.
C9_CacheHitSkipsWork ==
    (run.pc # "unused" /\ run.used_cache) =>
        LET cached == load_cache(cache_store, Fingerprint(run.pdf_file)) IN
        /\ cached.hit
        /\ run.pc \in {"generate", "completed"}
        /\ run.image_paths = << >>
        /\ run.llm_calls = << >>
        /\ run.pages_to_process = << >>
        /\ run.analyses = cached.results
        /\ run.pc = "completed" => run.handed = [done |-> TRUE, results |-> cached.results]

\* the second run completes from the cache record the first run wrote
C9_Witness ==
    /\ run_no = 2
    /\ run.used_cache
    /\ run.pc = "completed"
    /\ Len(run.handed.results) = 2
    /\ run.llm_calls = << >>

\* the page numbers of a sequence of calls, log entries or result tuples
CallPages(log) == [i \in 1..Len(log) |-> log[i].page]

TuplePages(tuples) == [i \in 1..Len(tuples) |-> tuples[i][1]]

\* C11: in a run that is not served from cache, the model calls are made
\* for the selected pages in strictly ascending page-number order, one
\* call per loop iteration, and the sequence handed to document generation
\* holds exactly one (page number, image path, explanation text) tuple per
\* selected page, in that same ascending order.
C11_AscendingOneTuplePerPage ==
    (run.pc # "unused" /\ ~run.used_cache) =>
        /\ StrictlyAscending(CallPages(run.llm_calls))
        /\ CallPages(run.llm_calls) = SubSeq(run.pages_to_process, 1, Len(run.llm_calls))
        /\ run.pc = "analyze" => Len(run.llm_calls) = run.idx - 1
        /\ run.handed.done =>
              /\ Len(run.handed.results) = Len(run.pages_to_process)
              /\ StrictlyAscending(TuplePages(run.handed.results))
              /\ \A i \in 1..Len(run.pages_to_process) :
                    run.handed.results[i] =
                        <<run.pages_to_process[i],
                          ImagePath(run.pages_to_process[i]),
                          run.llm_calls[i].returned>>

\* all six pages of the larger source analysed and handed over in order
C11_Witness ==
    /\ run.pc = "completed"
    /\ ~run.used_cache
    /\ run.pdf_file = "b.pdf"
    /\ TuplePages(run.handed.results) = <<1, 2, 3, 4, 5, 6>>
    /\ run.handed.results[6][2] = "images/page_0006.png"

\* an expression the grammar of the page-range interface does not accept
\* for a document of `total` pages
InvalidExpression(str, total) == Len(str) > 0 /\ ~WellFormedInBounds(str, total)

\* the run has gone past the parsing of the page range
PastRangeSelection ==
    /\ run.pc \notin {"unused", "validate", "check_cache", "ask_cache", "open_pdf"}
    /\ ~run.used_cache
    /\ run.exit_reason # "invalid_input"

\* C12: an invalid or out-of-bounds page-range expression ends the run with
\* a failure outcome before any image is extracted and before any model
\* call is made, and no cache record is written.
C12_InvalidRangeEndsRunEarly ==
    /\ (run.pc # "unused" /\ run.exit_reason = "range_error") =>
          /\ run.pc = "exit"
          /\ run.extract_log = << >>
          /\ run.image_paths = << >>
          /\ run.llm_calls = << >>
          /\ run.cache_writes = 0
          /\ ~run.handed.done
    /\ (PastRangeSelection /\ InvalidExpression(run.pages, PageCount(run.pdf_file))) =>
          /\ run.pc = "exit"
          /\ run.exit_reason = "range_error"

\* C13: the images of all selected pages are extracted, in ascending page
\* order and one attempt per page, before the first model call; a failed
\* extraction is the last one of the run, which then ends with a failure
\* outcome: no model call, no cache record, nothing handed to document
\* generation.
C13_ExtractionFirstAndFatal ==
    (run.pc # "unused" /\ ~run.used_cache) =>
        /\ CallPages(run.extract_log) = SubSeq(run.pages_to_process, 1, Len(run.extract_log))
        /\ StrictlyAscending(CallPages(run.extract_log))
        /\ \A i \in 1..Len(run.extract_log) :
              ~run.extract_log[i].ok =>
                  /\ i = Len(run.extract_log)
                  /\ run.pc = "exit"
                  /\ run.exit_reason = "extraction_error"
        /\ TuplePages(run.image_paths) =
              CallPages(SelectSeq(run.extract_log, LAMBDA e : e.ok))
        /\ run.llm_calls # << >> =>
              /\ TuplePages(run.image_paths) = run.pages_to_process
              /\ \A i \in 1..Len(run.extract_log) : run.extract_log[i].ok
        /\ run.exit_reason = "extraction_error" =>
              /\ run.pc = "exit"
              /\ run.llm_calls = << >>
              /\ run.cache_writes = 0
              /\ ~run.handed.done

\* page 1 was rendered, page 2 was not: the run is over
C13_Witness ==
    /\ run.pc = "exit"
    /\ run.exit_reason = "extraction_error"
    /\ run.extract_log = <<[page |-> 1, ok |-> TRUE], [page |-> 2, ok |-> FALSE]>>
    /\ Len(run.image_paths) = 1

\* C20: in a run over n selected pages a pause follows the model call of
\* every page but the last one: each call that is followed by another call
\* was followed by a pause, exactly max(0, n - 1) pauses occur in a run that
\* analysed all its pages, and none follows the final call.
C20_PauseBetweenCalls ==
    (run.pc # "unused" /\ ~run.used_cache) =>
        LET n == Len(run.pages_to_process) IN
        /\ \A i \in 1..Len(run.llm_calls) : run.llm_calls[i].slept <=> i < n
        /\ run.sleeps = Cardinality({i \in 1..Len(run.llm_calls) : run.llm_calls[i].slept})
        /\ run.pc \in {"generate", "completed"} =>
              run.sleeps = (IF n = 0 THEN 0 ELSE n - 1)

\* six pages analysed with five pauses, none after page 6
C20_Witness ==
    /\ run.pc = "completed"
    /\ ~run.used_cache
    /\ Len(run.llm_calls) = 6
    /\ run.sleeps = 5
    /\ ~run.llm_calls[6].slept

\* the outcomes that end a run before its work is done: the fatal errors
\* and the caller declining to go on
FatalOrCancelled == {"invalid_input", "range_error", "extraction_error", "cancelled"}

C22_CacheUseIgnoresRange ==
    (run.pc # "unused" /\ run.used_cache) =>
        /\ run.total_pages = 0
        /\ run.pages_to_process = << >>
        /\ run.pc \in {"generate", "completed"}
        /\ run.exit_reason = ""
        /\ run.analyses = run.cached_analyses.results
        /\ run.handed.done => run.handed.results = run.cached_analyses.results

\* the first run cached pages 1 and 2; the second asks for page 99, uses the
\* cache and completes with both pages
C22_Witness ==
    /\ run_no = 2
    /\ run.used_cache
    /\ run.pages = <<"9", "9">>
    /\ InvalidExpression(run.pages, PageCount(run.pdf_file))
    /\ run.pc = "completed"
    /\ TuplePages(run.handed.results) = <<1, 2>>

\* C23: a run with caching enabled writes its cache record also when model
\* calls ended in a recovered error, the error texts being stored as those
\* pages' explanations; a later run that uses the record hands over those
\* texts and makes no model call.
C23_RecoveredErrorsAreCached ==
    run.pc # "unused" =>
        /\ (~run.used_cache /\ CachingOn /\ run.pc \in {"generate", "completed"}) =>
              LET stored == cache_store[Fingerprint(run.pdf_file)] IN
              /\ run.cache_writes = 1
              /\ stored.hit
              /\ Len(stored.results) = Len(run.llm_calls)
              /\ \A i \in 1..Len(run.llm_calls) :
                    /\ stored.results[i][1] = run.llm_calls[i].page
                    /\ stored.results[i][3] = run.llm_calls[i].returned
        /\ run.used_cache =>
              /\ run.llm_calls = << >>
              /\ run.analyses = cache_store[Fingerprint(run.pdf_file)].results
              /\ run.handed.done =>
                    run.handed.results = cache_store[Fingerprint(run.pdf_file)].results

\* the second run completes from a record whose page 1 holds the error text
\* of the first run's exhausted retries
C23_Witness ==
    /\ run_no = 2
    /\ run.used_cache
    /\ run.pc = "completed"
    /\ run.llm_calls = << >>
    /\ Len(run.handed.results) = 2
    /\ run.handed.results[1][3] = ErrorText(1, 3, "Error code: 429 - Too Many Requests")
    /\ IsErrorText(run.handed.results[1][3])

\* ------------------------------------------- ResultCache on its own
Fingerprints == {Fingerprint(pdf) : pdf \in Sources}

\* result sequences given to save
ResultSeqs ==
    LET r1 == <<1, ImagePath(1), "beta">>
        r2 == <<2, ImagePath(2), ErrorText(2, 1, "Error code: 401 - Incorrect API key")>>
    IN  {<< >>, <<r1>>, <<r1, r2>>, <<r2, r1>>}

CacheInit ==
    /\ ParseIdle
    /\ ContextIdle
    /\ RetryIdle
    /\ run = [pc |-> "unused"]
    /\ run_no = 0
    /\ enable_cache = TRUE
    /\ cache_store = [fp \in Fingerprints |-> NoCache]
    /\ save_log = << >>
    /\ loaded = [called |-> FALSE]
    /\ HandlerIdle

Save ==
    /\ Len(save_log) < MaxSaves
    /\ \E results \in ResultSeqs, fp \in Fingerprints :
          /\ cache_store' = save_cache(cache_store, results, fp)
          /\ save_log' = Append(save_log, [fp |-> fp, results |-> results])
    /\ UNCHANGED <<loaded, run, run_no, enable_cache, parseVars, ctxVars, retryVars, handlerVars>>

Load ==
    /\ \E fp \in Fingerprints :
          loaded' = [called |-> TRUE, fp |-> fp, at |-> Len(save_log),
                     out |-> load_cache(cache_store, fp)]
    /\ UNCHANGED <<cache_store, save_log, run, run_no, enable_cache,
                   parseVars, ctxVars, retryVars, handlerVars>>

CacheNext == Save \/ Load

SpecCache == CacheInit /\ [][CacheNext]_vars

\* the saves made under a fingerprint before the latest load, oldest first
SavesBeforeLoad(fp) == SelectSeq(SubSeq(save_log, 1, loaded.at), LAMBDA e : e.fp = fp)

=============================================================================
